---- MODULE Spec2Model ----
(***************************************************************************)
(* vcall: recursively run version control commands.                        *)
(*                                                                         *)
(* A model of src/vcall/__main__.py: the session (_vcall), the tree walker *)
(* (walk_dirname), the four runners (run_git, run_hg, run_svn, run_cvs),   *)
(* the command runner (try_prog), the per-directory configuration          *)
(* (parse_config, get_config_args), the output filter (print_except) and   *)
(* the progress wrapper (progress).  The file system, the .vcallrc files   *)
(* and the external programs are the environment: what a directory holds,  *)
(* what a .vcallrc says and how a program ends are chosen when the code    *)
(* asks.                                                                   *)
(***************************************************************************)
EXTENDS Integers, Sequences, FiniteSets, TLC

VARIABLES
    command,      \* the canonical command handed to _vcall
    dirnames,     \* the root directories handed to _vcall
    display,      \* getenv("DISPLAY") is set
    pc,           \* where the run is
    exc,          \* the exception that ended the run ("none" while it runs)
    rootsIter,    \* what progress(dirnames) returned
    rootIdx,      \* index of the root being walked
    walkIter,     \* what walk_dirname iterates for the current root
    todo,         \* directories os.walk has still to yield for this root
    yielded,      \* the tuple os.walk yielded, until the loop body takes it
    branch,       \* branch_dirname: the directory being processed
    runner,       \* the runner dispatched for it ("none": no dispatch)
    dispatched,   \* runners invoked for this directory, in order
    site,         \* the call the runner is at
    hgArgs,       \* run_hg's args list
    config,       \* the parsed .vcallrc and the section get_config_args chose
    call,         \* the invocation try_prog is about to make
    calls,        \* external invocations made for this directory
    diags,        \* diagnostics try_prog printed for this directory
    printed,      \* lines print_except printed for this directory
    shown,        \* run_cvs printed the captured standard output
    result,       \* what the runner returned
    visitLog,     \* every dispatch of the run: directory and outcome
    affected,     \* affected_dirnames
    suggestion    \* the follow-up line _vcall printed

vars == <<command, dirnames, display, pc, exc, rootsIter,
          rootIdx, walkIter, todo, yielded, branch, runner,
          dispatched, site, hgArgs, config, call, calls, diags, printed, shown,
          result, visitLog, affected, suggestion>>

(***************************************************************************)
(* Bounds of the model.                                                    *)
(***************************************************************************)
MaxRoots == 2      \* most root directories on the command line
MaxLines == 2      \* most lines one captured stream holds

(***************************************************************************)
(* The commands and the directory tree the roots are taken from.           *)
(***************************************************************************)
Commands == {"status", "update", "upgrade"}

RootChoices == {"a", "b"}

\* os.walk, top-down: the subdirectories of a directory, in listing order.
\* The directories inside a working copy's own .git/.hg/.svn/CVS hold no
\* signature name and are left out.
Subdirs(d) == IF d = "a" THEN <<"a/x">> ELSE <<>>

AllSeqs(S, n) == UNION {[1..k -> S] : k \in 0..n}

(***************************************************************************)
(* progress                                                                *)
(***************************************************************************)
\* PROGRESSERS, set at import time from DISPLAY.
PROGRESSERS == IF display THEN <<"tqdm_gui">> ELSE <<>>

NoneValue == [kind |-> "None", items |-> <<>>]

\* "starts" is the set of progressers that start without RuntimeError: the
\* first that starts wraps the iterable; when none does the loop ends and the
\* function returns nothing.
progress(iterable, starts) ==
    IF PROGRESSERS = <<>> THEN [kind |-> "plain", items |-> iterable]
    ELSE IF \E i \in 1..Len(PROGRESSERS) : PROGRESSERS[i] \in starts
         THEN [kind |-> "tqdm", items |-> iterable]
         ELSE NoneValue

\* "for x in w": a tqdm wrapper yields its iterable's items, None is not iterable.
Iterable(w) == w.kind # "None"

(***************************************************************************)
(* Backend registry                                                        *)
(***************************************************************************)
Signatures == {".git", ".hg", ".svn", "CVS"}

\* RUNNERS, a dict: iterated in insertion order.
RUNNERS == << [sig |-> ".git", runner |-> "run_git"],
              [sig |-> ".hg",  runner |-> "run_hg"],
              [sig |-> ".svn", runner |-> "run_svn"],
              [sig |-> "CVS",  runner |-> "run_cvs"] >>

\* What a directory listing can hold of the four names: each name is absent,
\* a child directory or a child file.
Listings == {l \in [dirs : SUBSET Signatures, files : SUBSET Signatures] :
                l.dirs \cap l.files = {}}

\* The tuple (branch_dirname, child_dirnames, child_filenames) of os.walk.
NoTuple == [dirname |-> "", dirs |-> {}, files |-> {}]

RunnersOf(seq) == [i \in 1..Len(seq) |-> seq[i].runner]

FirstOnly(seq) == IF seq = <<>> THEN <<>> ELSE <<Head(seq)>>

\* Mutant: the signature is looked up among the child files too.
Dispatch_files_too(child_dirnames, child_filenames) ==
    RunnersOf(FirstOnly(SelectSeq(RUNNERS,
        LAMBDA e : e.sig \in child_dirnames \cup child_filenames)))

\* The inner loop of walk_dirname: the runners it invokes for one directory.
\* The first registry entry whose signature is among child_dirnames is
\* dispatched and the loop breaks.
Dispatch(child_dirnames, child_filenames) ==
    RunnersOf(FirstOnly(SelectSeq(RUNNERS,
        LAMBDA e : e.sig \in child_dirnames)))

(***************************************************************************)
(* Per-directory configuration                                             *)
(***************************************************************************)
SectionNames == {"interactive", "noninteractive"}

\* Option names as a .vcallrc may spell them: <<prog, subcommand>> stands for
\* "prog.subcommand".
FileKeys == { <<"git", "status">>, <<"git", "-C">>, <<"hg", "summary">>,
              <<"svn", "status">>, <<"cvs", "update">> }

FileValues == {"status --short", "%(nope)s", "summary 'x"}

RcEntries == [section : SectionNames, option : FileKeys, value : FileValues]

\* The states of <dirname>/.vcallrc.
RcFiles ==
    {[state |-> s, sections |-> {}, entries |-> {}] :
        s \in {"absent", "unreadable", "malformed", "parsed"}}
    \cup {[state |-> "parsed", sections |-> {sec}, entries |-> {}] :
            sec \in SectionNames}
    \cup {[state |-> "parsed", sections |-> {e.section}, entries |-> {e}] :
            e \in RcEntries}

\* ConfigParser.optionxform: option names are lower-cased, in the file and in
\* the lookup.
Lower(s) == IF s = "-C" THEN "-c" ELSE s

optionxform(option) == <<Lower(option[1]), Lower(option[2])>>

\* parse_config: ConfigParser.read skips a file it cannot open and raises on
\* one it cannot parse.
parse_config(rc) ==
    IF rc.state = "malformed"
    THEN [raises |-> "ParsingError", sections |-> {}, entries |-> {}]
    ELSE IF rc.state \in {"absent", "unreadable"}
    THEN [raises |-> "none", sections |-> {}, entries |-> {}]
    ELSE [raises |-> "none", sections |-> rc.sections,
          entries |-> {[section |-> e.section,
                        option |-> optionxform(e.option),
                        value |-> e.value] : e \in rc.entries}]

\* BasicInterpolation of an option value: %(name)s needs an option "name".
Interpolates(value) == value # "%(nope)s"

\* shlex.split: a token list, or ValueError on an unclosed quotation.
SplitFails(value) == value = "summary 'x"

split(value) ==
    IF value = "status --short" THEN <<"status", "--short">> ELSE <<>>

\* get_config_args, lines 72-77: the parsed file and the section chosen by
\* sys.stdin.isatty().
Configuration(rc, isatty) ==
    [raises |-> parse_config(rc).raises,
     sections |-> parse_config(rc).sections,
     entries |-> parse_config(rc).entries,
     section |-> IF isatty THEN "interactive" ELSE "noninteractive"]

\* Every parsed file and chosen section the environment can present.
Configurations == {Configuration(rc, isatty) : rc \in RcFiles,
                                                isatty \in BOOLEAN}

NoConfiguration ==
    [raises |-> "none", sections |-> {}, entries |-> {}, section |-> ""]

NoOverride == [kind |-> "none", args |-> <<>>]

\* get_config_args, lines 79-88: the override for prog.subcommand in the
\* chosen section: [kind |-> "none"] (return None), [kind |-> "args"] (the
\* token list) or [kind |-> an exception name] when the lookup raises.
get_config_args(prog, subcommand, cfg) ==
     LET option == optionxform(<<prog, subcommand>>)
         found  == {e \in cfg.entries :
                       e.section = cfg.section /\ e.option = option}
     IN  IF cfg.section \notin cfg.sections THEN NoOverride
         ELSE IF found = {} THEN NoOverride
         ELSE LET value == (CHOOSE e \in found : TRUE).value
              IN  IF ~Interpolates(value)
                  THEN [kind |-> "InterpolationError", args |-> <<>>]
                  ELSE IF SplitFails(value)
                  THEN [kind |-> "ValueError", args |-> <<>>]
                  ELSE [kind |-> "args", args |-> split(value)]

(***************************************************************************)
(* Output filter                                                           *)
(***************************************************************************)
\* Lines an external program may print, per captured stream of a call site.
Vocabulary(where, stream) ==
    CASE where = "git_remote" /\ stream = "err" ->
             {"Fetching origin", "From example.org:repo"}
      [] where = "git_remote" /\ stream = "out" -> {"Fetching origin"}
      [] where = "git_status" -> {" M file.py"}
      [] where = "hg_summary" ->
             {"commit: (clean)", "commit: 1 modified", "parent: 3:abc tip"}
      [] where = "hg_update" ->
             {"0 files updated, 0 files merged, 0 files removed, 0 files unresolved",
              "1 files updated, 0 files merged, 0 files removed, 0 files unresolved"}
      [] where = "svn" -> {"Status against revision:     12", "M       foo.c"}
      [] where = "cvs" /\ stream = "err" ->
             {"cvs update: New directory `x' -- ignored",
              "cvs update: conflicts found in foo.c"}
      [] where = "cvs" /\ stream = "out" -> {"M foo.c"}
      [] OTHER -> {}

\* regex.match(line) for the six compiled patterns, on the lines above.
Match(regex, line) ==
    CASE regex = "re_git_fetching_origin" -> line = "Fetching origin"
      [] regex = "re_git" -> FALSE
      [] regex = "re_svn_status_against" ->
             line = "Status against revision:     12"
      [] regex = "re_hg_quiet_summary" ->
             line \in {"commit: (clean)", "parent: 3:abc tip"}
      [] regex = "re_hg_0_updates" ->
             line = "0 files updated, 0 files merged, 0 files removed, 0 files unresolved"
      [] regex = "re_cvs_new_directory_ignored" ->
             line = "cvs update: New directory `x' -- ignored"
      [] OTHER -> FALSE

\* A captured stream: None (try_prog returned nothing) or its lines.
NoneOutput == [isNone |-> TRUE, lines |-> <<>>]

Bytes(lines) == [isNone |-> FALSE, lines |-> lines]

\* output_lines: no lines for None or empty output.
output_lines(output) ==
    IF output.isNone \/ output.lines = <<>> THEN <<>> ELSE output.lines

\* What is recorded of a printed line: the line and the call site it is from.
PrintedAt(where, lines) ==
    [i \in 1..Len(lines) |-> [at |-> where, line |-> lines[i]]]

\* The lines print_except prints: those that do not match regex.
Survivors(output, regex) ==
    SelectSeq(output_lines(output), LAMBDA line : ~Match(regex, line))

\* print_except's return value: whether any line was printed.
print_except(output, regex) == Survivors(output, regex) # <<>>

(***************************************************************************)
(* Runners: the call sites and what each passes to try_prog                *)
(***************************************************************************)
None == "<None>"

make_args(cmd, subcommand, dirname) ==
    IF subcommand # None THEN <<cmd, subcommand, dirname>>
    ELSE <<cmd, dirname>>

TryProgSites == {"git_remote", "git_status", "hg_summary", "hg_update",
                 "svn", "cvs"}

DirectSites == {"hg_paths", "hg_pull"}

CVS_KWARGS_DEFAULT == {"q"}

\* Mutant: run_svn maps upgrade to update.
run_svn_args_upgrade_is_update(cmd, dirname) ==
    make_args(IF cmd = "upgrade" THEN "update" ELSE cmd,
              IF cmd = "status" THEN "-u" ELSE None, dirname)

\* run_svn: the command is passed on as it is, status with -u.
run_svn_args(cmd, dirname) ==
    make_args(cmd, IF cmd = "status" THEN "-u" ELSE None, dirname)

\* run_cvs: status is a dry-run update.
run_cvs_kwargs(cmd) ==
    IF cmd = "status" THEN CVS_KWARGS_DEFAULT \cup {"n"}
    ELSE CVS_KWARGS_DEFAULT

run_cvs_args(cmd) ==
    LET cmd2 == IF cmd = "status" THEN "update" ELSE cmd
    IN  make_args(cmd2, IF cmd2 = "update" THEN "-dP" ELSE None, ".")

\* What the runner passes to try_prog at a call site.  "cwdArg": the first
\* positional argument is Cwd(dirname), which is no argument of the program.
DefaultCall(where, cmd, dirname, hgargs) ==
    CASE where = "git_remote" ->
             [prog |-> "git", funcname |-> "getoutput_error", cwdArg |-> FALSE,
              args |-> <<"-C", dirname, "remote", "update">>, kwargs |-> {}]
      [] where = "git_status" ->
             [prog |-> "git", funcname |-> "getoutput", cwdArg |-> FALSE,
              args |-> <<"-C", dirname, "status", "--porcelain">>,
              kwargs |-> {}]
      [] where = "hg_summary" ->
             [prog |-> "hg", funcname |-> "getoutput", cwdArg |-> FALSE,
              args |-> hgargs, kwargs |-> {"cwd"}]
      [] where = "hg_update" ->
             [prog |-> "hg", funcname |-> "getoutput", cwdArg |-> FALSE,
              args |-> <<"update">>, kwargs |-> {"cwd"}]
      [] where = "svn" ->
             [prog |-> "svn", funcname |-> "getoutput", cwdArg |-> FALSE,
              args |-> run_svn_args(cmd, dirname), kwargs |-> {}]
      [] where = "cvs" ->
             [prog |-> "cvs", funcname |-> "getoutput_error", cwdArg |-> TRUE,
              args |-> <<dirname>> \o run_cvs_args(cmd),
              kwargs |-> run_cvs_kwargs(cmd)]

\* The direct calls of run_hg: HG_PROG("paths", "default", quiet=True, cwd=...)
\* and HG_PROG("pull", quiet=True, cwd=...).
DirectCall(where) ==
    IF where = "hg_paths"
    THEN [prog |-> "hg", funcname |-> "run", cwdArg |-> FALSE,
          args |-> <<"paths", "default">>, kwargs |-> {"quiet", "cwd"}]
    ELSE [prog |-> "hg", funcname |-> "run", cwdArg |-> FALSE,
          args |-> <<"pull">>, kwargs |-> {"quiet", "cwd"}]

NoCall == [prog |-> "none", funcname |-> "none", cwdArg |-> FALSE,
           args |-> <<>>, kwargs |-> {}]

\* try_prog, lines 93-96: an override replaces args and empties kwargs.
Resolve(c, config_args) ==
    IF config_args.kind = "args"
    THEN [c EXCEPT !.args = config_args.args, !.kwargs = {}, !.cwdArg = FALSE]
    ELSE c

\* How an invocation can end: exit status 0 with what it printed on the
\* captured streams, a non-zero exit status ("exit2"; "exit1" where the code
\* tells status 1 from the others), or no start at all.
Streams(where, stream) == AllSeqs(Vocabulary(where, stream), MaxLines)

EndingsOf(where, funcname) ==
    {[end |-> e, out |-> <<>>, err |-> <<>>] :
        e \in (IF where \in DirectSites THEN {"exit1"} ELSE {})
               \cup {"exit2", "OSError"}}
    \cup {[end |-> "exit0", out |-> o, err |-> e] :
            o \in (IF funcname = "run" THEN {<<>>} ELSE Streams(where, "out")),
            e \in (IF funcname = "getoutput_error"
                   THEN Streams(where, "err") ELSE {<<>>})}

EndingsTable ==
    [where \in TryProgSites \cup DirectSites,
     funcname \in {"getoutput", "getoutput_error", "run"} |->
        EndingsOf(where, funcname)]

Endings(where, funcname) == EndingsTable[where, funcname]

\* What a runner does on entry, up to its first external call.
RunnerEntry(r, cmd) ==
    CASE r = "run_git" ->
             IF cmd = "status" THEN [do |-> "call", at |-> "git_remote"]
             ELSE [do |-> "raise", at |-> "NotImplementedError"]
      [] r = "run_hg" ->
             IF cmd = "status" THEN [do |-> "call", at |-> "hg_paths"]
             ELSE IF cmd = "upgrade" THEN [do |-> "return", at |-> "None"]
             ELSE [do |-> "call", at |-> "hg_pull"]
      [] r = "run_svn" -> [do |-> "call", at |-> "svn"]
      [] r = "run_cvs" ->
             IF cmd = "upgrade" THEN [do |-> "return", at |-> "None"]
             ELSE [do |-> "call", at |-> "cvs"]

\* What try_prog hands back: the captured output of getoutput, the pair of
\* getoutput_error, or None after a repeat.
Returned(funcname, e) ==
    [isNone |-> FALSE, pair |-> funcname = "getoutput_error",
     out |-> e.out, err |-> e.err]

ReturnedNone == [isNone |-> TRUE, pair |-> FALSE, out |-> <<>>, err |-> <<>>]

\* "output" of "output = try_prog(...)".
Single(v) == IF v.isNone THEN NoneOutput ELSE Bytes(v.out)

Bool(b) == IF b THEN "True" ELSE "False"

Outcome(do, at, prints, shows) ==
    [do |-> do, at |-> at, prints |-> prints, shows |-> shows]

\* Mutant: run_hg update returns what print_except returned.
After_hg_update_reports(where, v) ==
    CASE where = "git_remote" ->
             IF ~v.pair THEN Outcome("raise", "TypeError", <<>>, FALSE)
             ELSE Outcome("call", "git_status",
                          Survivors(Bytes(v.err), "re_git_fetching_origin"),
                          FALSE)
      [] where = "git_status" ->
             Outcome("return", Bool(print_except(Single(v), "re_git")),
                     Survivors(Single(v), "re_git"), FALSE)
      [] where = "hg_summary" ->
             Outcome("return",
                     Bool(print_except(Single(v), "re_hg_quiet_summary")),
                     Survivors(Single(v), "re_hg_quiet_summary"), FALSE)
      [] where = "hg_update" ->
             Outcome("return",
                     Bool(print_except(Single(v), "re_hg_0_updates")),
                     Survivors(Single(v), "re_hg_0_updates"), FALSE)
      [] where = "svn" ->
             Outcome("return",
                     Bool(print_except(Single(v), "re_svn_status_against")),
                     Survivors(Single(v), "re_svn_status_against"), FALSE)
      [] where = "cvs" ->
             IF ~v.pair THEN Outcome("raise", "TypeError", <<>>, FALSE)
             ELSE Outcome("return",
                     Bool(print_except(Bytes(v.err),
                                       "re_cvs_new_directory_ignored")
                          \/ v.out # <<>>),
                     Survivors(Bytes(v.err), "re_cvs_new_directory_ignored"),
                     v.out # <<>>)

\* What the runner does with the value try_prog returned at a call site:
\* unpack it, filter and print it, then return, raise or go on to its next
\* call.
After(where, v) ==
    CASE where = "git_remote" ->
             IF ~v.pair THEN Outcome("raise", "TypeError", <<>>, FALSE)
             ELSE Outcome("call", "git_status",
                          Survivors(Bytes(v.err), "re_git_fetching_origin"),
                          FALSE)
      [] where = "git_status" ->
             Outcome("return", Bool(print_except(Single(v), "re_git")),
                     Survivors(Single(v), "re_git"), FALSE)
      [] where = "hg_summary" ->
             Outcome("return",
                     Bool(print_except(Single(v), "re_hg_quiet_summary")),
                     Survivors(Single(v), "re_hg_quiet_summary"), FALSE)
      [] where = "hg_update" ->
             Outcome("return", "None",
                     Survivors(Single(v), "re_hg_0_updates"), FALSE)
      [] where = "svn" ->
             Outcome("return",
                     Bool(print_except(Single(v), "re_svn_status_against")),
                     Survivors(Single(v), "re_svn_status_against"), FALSE)
      [] where = "cvs" ->
             IF ~v.pair THEN Outcome("raise", "TypeError", <<>>, FALSE)
             ELSE Outcome("return",
                     Bool(print_except(Bytes(v.err),
                                       "re_cvs_new_directory_ignored")
                          \/ v.out # <<>>),
                     Survivors(Bytes(v.err), "re_cvs_new_directory_ignored"),
                     v.out # <<>>)

\* Mutant: the walker yields unless the runner returned False.
Yields_not_false(v) == v # "False"

\* walk_dirname, "if runner(command, branch_dirname): yield branch_dirname".
Yields(v) == v = "True"

\* Mutant: the walker catches nothing.
Caught_none(e) == FALSE

\* Mutant: the walker catches every exception.
Caught_all(e) == TRUE

\* walk_dirname, "except ReturncodeError: pass".
Caught(e) == e = "ReturncodeError"

(***************************************************************************)
(* The run                                                                 *)
(***************************************************************************)
Init ==
    /\ command \in Commands
    /\ dirnames \in AllSeqs(RootChoices, MaxRoots) \ {<<>>}
    /\ display \in BOOLEAN
    /\ pc = "start"
    /\ exc = "none"
    /\ rootsIter = NoneValue
    /\ rootIdx = 0
    /\ walkIter = NoneValue
    /\ todo = <<>>
    /\ yielded = NoTuple
    /\ branch = ""
    /\ runner = "none"
    /\ dispatched = <<>>
    /\ site = "none"
    /\ hgArgs = <<>>
    /\ config = NoConfiguration
    /\ call = NoCall
    /\ calls = <<>>
    /\ diags = <<>>
    /\ printed = <<>>
    /\ shown = FALSE
    /\ result = "none"
    /\ visitLog = <<>>
    /\ affected = <<>>
    /\ suggestion = <<>>

inputs == <<command, dirnames, display>>

listing == <<yielded, branch, runner, dispatched>>

session == <<rootsIter, rootIdx, walkIter, suggestion>>

\* The runner returns v to walk_dirname, which yields the directory to
\* affected_dirnames.extend when v is true.
RunnerReturns(d, v) ==
    /\ result' = v
    /\ visitLog' = Append(visitLog, [dir |-> d, reportable |-> v = "True"])
    /\ affected' = IF Yields(v) THEN Append(affected, d) ELSE affected
    /\ pc' = "walk"
    /\ site' = "none"
    /\ exc' = exc

\* The runner raises e: walk_dirname catches ReturncodeError and goes on,
\* anything else ends the run.
RunnerRaises(d, e) ==
    /\ result' = "raised"
    /\ visitLog' = Append(visitLog, [dir |-> d, reportable |-> FALSE])
    /\ affected' = affected
    /\ IF Caught(e)
       THEN pc' = "walk" /\ site' = "none" /\ exc' = exc
       ELSE pc' = "crashed" /\ site' = site /\ exc' = e

\* The runner goes on to the call at site w.
RunnerCalls(w) ==
    /\ result' = "pending"
    /\ site' = w
    /\ pc' = IF w \in DirectSites THEN "direct" ELSE "cfg"
    /\ UNCHANGED <<exc, visitLog, affected>>

Proceed(d, o) ==
    CASE o.do = "call"   -> RunnerCalls(o.at)
      [] o.do = "return" -> RunnerReturns(d, o.at)
      [] o.do = "raise"  -> RunnerRaises(d, o.at)

\* _vcall, lines 292-295: progress(dirnames) and the start of the loop.
Vcall ==
    /\ pc = "start"
    /\ \E starts \in SUBSET {"tqdm_gui"} :
          /\ rootsIter' = progress(dirnames, starts)
          /\ IF Iterable(rootsIter')
             THEN pc' = "root" /\ rootIdx' = 1 /\ exc' = exc
             ELSE pc' = "crashed" /\ rootIdx' = rootIdx /\ exc' = "TypeError"
    /\ UNCHANGED <<inputs, listing, walkIter, todo, site, hgArgs, config,
                   call, calls,
                   diags, printed, shown, result, visitLog, affected,
                   suggestion>>

\* The next root: walk_dirname, lines 271-276, up to the first directory.
BeginRoot ==
    /\ pc = "root"
    /\ rootIdx <= Len(rootsIter.items)
    /\ \E starts \in SUBSET {"tqdm_gui"}, isatty \in BOOLEAN :
          LET walker == <<rootsIter.items[rootIdx]>>
          IN  /\ walkIter' = IF isatty THEN progress(walker, starts)
                             ELSE [kind |-> "plain", items |-> walker]
              /\ IF Iterable(walkIter')
                 THEN pc' = "walk" /\ todo' = walkIter'.items /\ exc' = exc
                 ELSE pc' = "crashed" /\ todo' = todo /\ exc' = "TypeError"
    /\ UNCHANGED <<inputs, listing, rootsIter, rootIdx, site, hgArgs,
                   config, call, calls, diags, printed, shown, result, visitLog, affected,
                   suggestion>>

\* The loop leaves the directory it processed: what was recorded for that
\* directory goes with it.
LeaveDirectory ==
    /\ branch' = ""
    /\ runner' = "none"
    /\ dispatched' = <<>>
    /\ site' = "none"
    /\ hgArgs' = <<>>
    /\ config' = NoConfiguration
    /\ call' = NoCall
    /\ calls' = <<>>
    /\ diags' = <<>>
    /\ printed' = <<>>
    /\ shown' = FALSE
    /\ result' = "none"

\* os.walk, top-down: the next directory with what it holds, then its
\* subdirectories before the directories still pending.
WalkNext ==
    /\ pc = "walk"
    /\ todo # <<>>
    /\ \E l \in Listings :
          yielded' = [dirname |-> Head(todo), dirs |-> l.dirs,
                      files |-> l.files]
    /\ todo' = Subdirs(Head(todo)) \o Tail(todo)
    /\ pc' = "lookup"
    /\ LeaveDirectory
    /\ UNCHANGED <<inputs, session, exc, visitLog, affected>>

\* The registry loop of walk_dirname, lines 276-279: the tuple is unpacked
\* and the signatures are looked up among child_dirnames.
Lookup ==
    /\ pc = "lookup"
    /\ LET invoked == Dispatch(yielded.dirs, yielded.files)
       IN  /\ branch' = yielded.dirname
           /\ dispatched' = invoked
           /\ runner' = IF invoked = <<>> THEN "none" ELSE Head(invoked)
    /\ pc' = "dispatch"
    /\ UNCHANGED <<inputs, session, todo, yielded, exc, site, hgArgs, config,
                   call, calls, diags, printed, shown, result, visitLog,
                   affected>>

\* Lines 280-288: with no match the loop ends and the walk goes on; with a
\* match the runner is called and runs up to its first external call.
RunRunner ==
    /\ pc = "dispatch"
    /\ yielded' = NoTuple
    /\ IF dispatched = <<>>
       THEN /\ pc' = "walk"
            /\ visitLog' = Append(visitLog,
                                  [dir |-> branch, reportable |-> FALSE])
            /\ UNCHANGED <<hgArgs, exc, site, result, affected>>
       ELSE LET o == RunnerEntry(runner, command)
            IN  /\ hgArgs' = IF o.at = "hg_paths" THEN <<"summary">>
                             ELSE <<>>
                /\ Proceed(branch, o)
    /\ UNCHANGED <<inputs, session, todo, branch, runner, dispatched, config,
                   call, calls, diags, printed, shown>>

Invocation(c, how, by, end) ==
    [prog |-> c.prog, args |-> c.args, kwargs |-> c.kwargs,
     cwdArg |-> c.cwdArg, how |-> how, by |-> by, end |-> end]

\* run_hg, lines 213-219: the probe for a default remote path.
HgPaths ==
    /\ pc = "direct"
    /\ site = "hg_paths"
    /\ \E e \in Endings(site, "run") :
          /\ calls' = Append(calls,
                             Invocation(DirectCall(site), "run", "direct", e.end))
          /\ hgArgs' = IF e.end = "exit0" THEN Append(hgArgs, "--remote")
                       ELSE hgArgs
          /\ CASE e.end = "OSError" -> RunnerRaises(branch, "OSError")
               [] e.end = "exit2" -> RunnerRaises(branch, "ReturncodeError")
               [] OTHER -> RunnerCalls("hg_summary")
    /\ UNCHANGED <<inputs, listing, session, todo, config, call, diags,
                   printed, shown>>

\* run_hg, lines 223-228: the pull before update.
HgPull ==
    /\ pc = "direct"
    /\ site = "hg_pull"
    /\ \E e \in Endings(site, "run") :
          /\ calls' = Append(calls,
                             Invocation(DirectCall(site), "run", "direct", e.end))
          /\ CASE e.end = "OSError" -> RunnerRaises(branch, "OSError")
               [] e.end = "exit2" -> RunnerRaises(branch, "ReturncodeError")
               [] OTHER -> RunnerCalls("hg_update")
    /\ UNCHANGED <<inputs, listing, session, todo, hgArgs, config, call,
                   diags, printed, shown>>

\* try_prog, line 93, into get_config_args, lines 72-77: the directory's
\* .vcallrc is parsed and the section chosen.
ParseConfig ==
    /\ pc = "cfg"
    /\ \E cfg \in Configurations :
          IF cfg.raises = "none"
          THEN /\ config' = cfg
               /\ pc' = "lookup_option"
               /\ UNCHANGED <<exc, site, result, visitLog, affected>>
          ELSE /\ config' = config
               /\ RunnerRaises(branch, cfg.raises)
    /\ UNCHANGED <<inputs, listing, session, todo, hgArgs, call, calls, diags,
                   printed, shown>>

\* get_config_args, lines 79-88, and try_prog, lines 94-96: the override
\* lookup, and what try_prog will invoke.
TryProgConfig ==
    /\ pc = "lookup_option"
    /\ LET c == DefaultCall(site, command, branch, hgArgs)
           config_args == get_config_args(c.prog, c.args[1], config)
       IN  IF config_args.kind \in {"none", "args"}
           THEN /\ call' = Resolve(c, config_args)
                /\ pc' = "exec"
                /\ UNCHANGED <<exc, site, result, visitLog, affected>>
           ELSE /\ call' = c
                /\ RunnerRaises(branch, config_args.kind)
    /\ config' = NoConfiguration
    /\ UNCHANGED <<inputs, listing, session, todo, hgArgs, calls, diags,
                   printed, shown>>

Diagnostic(msg) == [msg |-> msg, prog |-> call.prog, dirname |-> branch]

\* try_prog, lines 98-107: the invocation, and what the runner does with
\* the value it returns.
TryProgRun ==
    /\ pc = "exec"
    /\ \E e \in Endings(site, call.funcname) :
          /\ calls' = Append(calls,
                             Invocation(call, call.funcname, "try_prog", e.end))
          /\ CASE e.end = "exit0" ->
                    LET o == After(site, Returned(call.funcname, e))
                    IN  /\ printed' = printed \o PrintedAt(site, o.prints)
                        /\ shown' = (shown \/ o.shows)
                        /\ diags' = diags
                        /\ Proceed(branch, o)
               [] e.end = "OSError" ->
                    /\ diags' = Append(diags, Diagnostic("trying to run"))
                    /\ RunnerRaises(branch, "OSError")
                    /\ UNCHANGED <<printed, shown>>
               [] OTHER ->
                    /\ diags' = Append(diags, Diagnostic("repeating"))
                    /\ pc' = "repeat"
                    /\ UNCHANGED <<printed, shown, exc, site, result, visitLog,
                                   affected>>
    /\ UNCHANGED <<inputs, listing, session, todo, hgArgs, config, call>>

\* try_prog, line 103: the repeat, prog(*args, **kwargs), whose output is not
\* captured and whose value is dropped.
TryProgRepeat ==
    /\ pc = "repeat"
    /\ \E e \in Endings(site, "run") :
          /\ calls' = Append(calls, Invocation(call, "run", "repeat", e.end))
          /\ CASE e.end = "exit0" ->
                    LET o == After(site, ReturnedNone)
                    IN  /\ printed' = printed \o PrintedAt(site, o.prints)
                        /\ shown' = (shown \/ o.shows)
                        /\ Proceed(branch, o)
               [] e.end = "OSError" ->
                    /\ RunnerRaises(branch, "OSError")
                    /\ UNCHANGED <<printed, shown>>
               [] OTHER ->
                    /\ RunnerRaises(branch, "ReturncodeError")
                    /\ UNCHANGED <<printed, shown>>
    /\ UNCHANGED <<inputs, listing, session, todo, hgArgs, config, call,
                   diags>>

\* The walk of the current root is exhausted: _vcall's loop goes on.
EndRoot ==
    /\ pc = "walk"
    /\ todo = <<>>
    /\ pc' = "root"
    /\ rootIdx' = rootIdx + 1
    /\ LeaveDirectory
    /\ UNCHANGED <<inputs, exc, rootsIter, walkIter, todo, yielded, visitLog,
                   affected, suggestion>>

\* _vcall, lines 298-300: the follow-up suggestion.
Suggest ==
    /\ pc = "root"
    /\ rootIdx > Len(rootsIter.items)
    /\ suggestion' = IF affected # <<>> THEN <<"update">> \o affected
                     ELSE <<>>
    /\ pc' = "done"
    /\ UNCHANGED <<inputs, listing, exc, rootsIter, rootIdx, walkIter, todo,
                   site, hgArgs, config, call, calls, diags, printed,
                   shown, result, visitLog, affected>>

Next ==
    \/ Vcall
    \/ BeginRoot
    \/ WalkNext
    \/ Lookup
    \/ RunRunner
    \/ HgPaths
    \/ HgPull
    \/ ParseConfig
    \/ TryProgConfig
    \/ TryProgRun
    \/ TryProgRepeat
    \/ EndRoot
    \/ Suggest

Spec == Init /\ [][Next]_vars

(***************************************************************************)
(* Properties                                                              *)
(***************************************************************************)
Last(seq) == seq[Len(seq)]

Indices(seq) == 1..Len(seq)

\* The runner of the first of .git, .hg, .svn, CVS among a set of names.
FirstMarker(names) ==
    IF ".git" \in names THEN <<"run_git">>
    ELSE IF ".hg" \in names THEN <<"run_hg">>
    ELSE IF ".svn" \in names THEN <<"run_svn">>
    ELSE IF "CVS" \in names THEN <<"run_cvs">>
    ELSE <<>>

\* C1, as the specification states it: for every visited directory the
\* runners invoked are at most one, the runner of the first of .git, .hg,
\* .svn, CVS present among the directory's children, whether the child is a
\* file or a directory, and none when no marker is present.
C1_AnyChild ==
    pc = "dispatch" =>
        dispatched = FirstMarker(yielded.dirs \cup yielded.files)

\* C1, amended: for every visited directory the runners invoked are at most
\* one, the runner of the first of .git, .hg, .svn, CVS present among the
\* directory's child directories; a marker that is a child file dispatches
\* nothing, and with no marker among the child directories no runner is
\* invoked.
C1_ChildDirectory ==
    /\ Len(dispatched) <= 1
    /\ runner = (IF dispatched = <<>> THEN "none" ELSE dispatched[1])
    /\ pc = "dispatch" => dispatched = FirstMarker(yielded.dirs)
    /\ (pc = "dispatch" /\ yielded.dirs \cap Signatures = {}) =>
           dispatched = <<>>
    /\ dispatched = <<>> => calls = <<>>

\* A directory with .git as a file and .hg and CVS as directories is
\* dispatched to run_hg.
C1_Witness ==
    /\ pc = "dispatch"
    /\ yielded.files = {".git"}
    /\ yielded.dirs = {".hg", "CVS"}
    /\ dispatched = <<"run_hg">>

\* The invocation at index i of calls failed with a non-zero exit status that
\* is not tolerated.
Failed(i) == calls[i].end = "exit2"

SameInvocation(c, d) ==
    c.prog = d.prog /\ c.args = d.args /\ c.kwargs = d.kwargs

\* The program a runner drives.
ProgOf(r) ==
    CASE r = "run_git" -> "git"
      [] r = "run_hg"  -> "hg"
      [] r = "run_svn" -> "svn"
      [] r = "run_cvs" -> "cvs"
      [] OTHER -> "none"

\* The failure at index i was reported with a diagnostic naming the backend
\* and the directory, and the invocation is repeated right after it.
DiagnosedAndRepeated(i) ==
    /\ \E k \in Indices(diags) :
          diags[k] = [msg |-> "repeating", prog |-> ProgOf(runner),
                      dirname |-> branch]
    /\ IF i = Len(calls) THEN pc = "repeat"
       ELSE /\ calls[i + 1].by = "repeat"
            /\ SameInvocation(calls[i], calls[i + 1])

\* Nothing is repeated more than once: a repeat follows a failed first
\* attempt, and there are as many diagnostics as failed first attempts.
RepeatedAtMostOnce ==
    /\ \A i \in Indices(calls) :
          calls[i].by = "repeat" =>
              i > 1 /\ calls[i - 1].by = "try_prog" /\ Failed(i - 1)
    /\ Len(SelectSeq(diags, LAMBDA d : d.msg = "repeating"))
           = Cardinality({i \in Indices(calls) :
                             calls[i].by = "try_prog" /\ Failed(i)})

\* The failure at index i ended the directory's processing only: the walker
\* caught it, the directory is not reported and the walk goes on.
LeavesDirectoryOnly(i) ==
    /\ i = Len(calls)
    /\ pc = "walk"
    /\ exc = "none"
    /\ result = "raised"
    /\ Last(visitLog) = [dir |-> branch, reportable |-> FALSE]

\* C2, as the specification states it: every invocation that exits non-zero
\* (exit status 1 of the hg probe and pull aside) is reported with a
\* diagnostic and repeated exactly once; a repeat that fails too leaves the
\* directory only.
C2_EveryFailureRepeated ==
    /\ \A i \in Indices(calls) :
          (Failed(i) /\ calls[i].by # "repeat") => DiagnosedAndRepeated(i)
    /\ RepeatedAtMostOnce
    /\ \A i \in Indices(calls) :
          (Failed(i) /\ calls[i].by = "repeat") => LeavesDirectoryOnly(i)

\* C2, amended: every invocation made through try_prog that exits non-zero
\* is reported with a diagnostic naming the backend and the directory and is
\* repeated exactly once, never more; a repeat that exits non-zero too leaves
\* the directory only: the walker catches it, the directory is not reported
\* and the walk goes on.  The hg probe and the hg pull are not made through
\* try_prog: an exit status of theirs other than 0 and 1 is neither reported
\* nor repeated, and leaves the directory in the same way.
C2_TryProgFailureRepeated ==
    /\ \A i \in Indices(calls) :
          (Failed(i) /\ calls[i].by = "try_prog") => DiagnosedAndRepeated(i)
    /\ RepeatedAtMostOnce
    /\ \A i \in Indices(calls) :
          (Failed(i) /\ calls[i].by = "repeat") => LeavesDirectoryOnly(i)
    /\ \A i \in Indices(calls) :
          (Failed(i) /\ calls[i].by = "direct") =>
              diags = <<>> /\ LeavesDirectoryOnly(i)

\* An invocation failed, was repeated, failed again, and the walk went on.
C2_Witness ==
    /\ Len(calls) = 2
    /\ calls[1].by = "try_prog" /\ Failed(1)
    /\ calls[2].by = "repeat" /\ Failed(2)
    /\ Len(diags) = 1
    /\ pc = "walk"
    /\ result = "raised"

\* The backend subcommand a call site invokes.
Subcommand(where) ==
    CASE where = "git_remote" -> "remote"
      [] where = "git_status" -> "status"
      [] where = "hg_summary" -> "summary"
      [] where = "hg_update"  -> "update"
      [] where = "svn"        -> command
      [] where = "cvs"        -> "update"
      [] OTHER -> "none"

\* The well-formed overrides the .vcallrc just parsed holds, in the selected
\* section, under "<backendname>.<subcommand>" for the call site.
OverridesFor(where) ==
    {e \in config.entries :
        /\ e.section = config.section
        /\ e.option = optionxform(<<ProgOf(runner), Subcommand(where)>>)
        /\ Interpolates(e.value)
        /\ ~SplitFails(e.value)}

\* C3, as the specification states it: when the directory's .vcallrc holds,
\* in the selected section, an override under "<backendname>.<subcommand>",
\* the invocation of that subcommand uses exactly the override's token list
\* and no keyword flag; git.status = "status --short" makes try_prog invoke
\* ["status", "--short"].
C3_OverrideUsed ==
    [][(pc = "lookup_option" /\ OverridesFor(site) # {}) =>
           \E e \in OverridesFor(site) :
               call'.args = split(e.value) /\ call'.kwargs = {}]_vars

ConfigErrors == {"ParsingError", "InterpolationError", "ValueError"}

\* C4, as the specification states it: resolving the per-directory
\* configuration never raises, whatever the state of the .vcallrc: no run
\* ends with an error raised by the parser, the interpolation or the
\* splitting of the value.
C4_NeverRaises == pc = "crashed" => exc \notin ConfigErrors

\* The runner of the directory has returned.
Completed == result \in {"True", "False", "None"}

\* The noise filter applied to the output of a call site.
RegexOf(where) ==
    CASE where = "git_remote" -> "re_git_fetching_origin"
      [] where = "git_status" -> "re_git"
      [] where = "hg_summary" -> "re_hg_quiet_summary"
      [] where = "hg_update"  -> "re_hg_0_updates"
      [] where = "svn"        -> "re_svn_status_against"
      [] where = "cvs"        -> "re_cvs_new_directory_ignored"
      [] OTHER -> "none"

\* C5, as the specification states it: for every backend and every command
\* the runner returns a true value if and only if at least one output line
\* of the run was printed.
C5_AnyPrintedLine ==
    Completed => ((result = "True") <=> (printed # <<>> \/ shown))

\* C5, amended: every printed line survived the filter of its call site, and
\* the runner returns a true value if and only if a line of the output that
\* decides was printed: the output of git status --porcelain, of hg summary,
\* of svn, the error output of cvs, or any standard output of cvs, which is
\* printed unfiltered.  The error output of git remote update and the
\* output of hg update are filtered and printed too but decide nothing:
\* run_hg returns nothing for update.  The walker yields the directory
\* exactly when the runner returned a true value.
C5_DecidingLine ==
    /\ \A k \in Indices(printed) :
          ~Match(RegexOf(printed[k].at), printed[k].line)
    /\ Completed =>
          /\ (result = "True") <=>
                 (shown \/ \E k \in Indices(printed) :
                              printed[k].at \notin {"git_remote", "hg_update"})
          /\ Last(visitLog) = [dir |-> branch, reportable |-> result = "True"]
          /\ (result = "True") => Last(affected) = branch
    /\ (Completed /\ runner = "run_hg" /\ command = "update") =>
          result = "None"

\* hg update printed a line that survived its filter and run_hg returned
\* nothing.
C5_Witness ==
    /\ runner = "run_hg"
    /\ command = "update"
    /\ printed # <<>>
    /\ result = "None"
    /\ pc = "walk"

\* An invocation whose arguments are a .vcallrc override.
Overridden(c) ==
    c.kwargs = {} /\ \E value \in FileValues : c.args = split(value)

\* The svn command line for a command and a directory, upgrade being run as
\* the given subcommand; the cvs command line, run in the directory.
SvnLine(cmd, upgradeAs, d) ==
    CASE cmd = "status"  -> <<"status", "-u", d>>
      [] cmd = "update"  -> <<"update", d>>
      [] cmd = "upgrade" -> <<upgradeAs, d>>

CvsFlags(cmd) == IF cmd = "status" THEN {"n", "q"} ELSE {"q"}

\* Every svn and cvs invocation made for the directory is the one of the
\* table, or an override.
TableFollowed(upgradeAs) ==
    \A i \in Indices(calls) :
        \/ Overridden(calls[i])
        \/ /\ calls[i].prog = "svn"
           /\ calls[i].args = SvnLine(command, upgradeAs, branch)
           /\ calls[i].kwargs = {}
        \/ /\ calls[i].prog = "cvs"
           /\ command # "upgrade"
           /\ calls[i].cwdArg
           /\ calls[i].args = <<branch, "update", "-dP", ".">>
           /\ calls[i].kwargs = CvsFlags(command)
        \/ calls[i].prog \in {"git", "hg"}

\* upgrade on CVS and on Mercurial runs nothing and reports nothing.
UpgradeRunsNothing ==
    (command = "upgrade" /\ runner \in {"run_cvs", "run_hg"}) =>
        /\ calls = <<>>
        /\ pc \in {"dispatch", "walk"}
        /\ pc = "walk" =>
              /\ result = "None"
              /\ Last(visitLog) = [dir |-> branch, reportable |-> FALSE]

\* C6, as the specification states it: Subversion runs status -u for status,
\* update for update and update for upgrade; CVS runs update -n -q -dP for
\* status and update -q -dP for update; upgrade on CVS and on Mercurial runs
\* no external process and never makes the directory reportable.
C6_SvnUpgradeIsUpdate == TableFollowed("update") /\ UpgradeRunsNothing

\* C6, amended: Subversion runs status -u for status, update for update and
\* upgrade for upgrade: the command is passed on as it is; CVS runs
\* update -dP with the flags n and q for status and with the flag q for
\* update; upgrade on CVS and on Mercurial runs no external process and
\* never makes the directory reportable.
C6_SvnUpgradeIsUpgrade == TableFollowed("upgrade") /\ UpgradeRunsNothing

\* svn upgrade has been run on a directory.
C6_Witness ==
    /\ command = "upgrade"
    /\ runner = "run_svn"
    /\ Len(calls) = 1
    /\ calls[1].prog = "svn"
    /\ calls[1].args = <<"upgrade", branch>>
    /\ calls[1].end = "exit0"

\* os.walk, top-down, from a root: the directory, then the walks of its
\* subdirectories in order.
RECURSIVE WalkOrder(_)
WalkOrder(d) ==
    LET subs == Subdirs(d)
        RECURSIVE Each(_)
        Each(i) == IF i > Len(subs) THEN <<>>
                   ELSE WalkOrder(subs[i]) \o Each(i + 1)
    IN  <<d>> \o Each(1)

\* The directories visited when the given roots are walked one after another.
RECURSIVE WalkAll(_)
WalkAll(roots) ==
    IF roots = <<>> THEN <<>>
    ELSE WalkOrder(Head(roots)) \o WalkAll(Tail(roots))

Directories(log) == [i \in Indices(log) |-> log[i].dir]

Reportable(log) == Directories(SelectSeq(log, LAMBDA v : v.reportable))

NoDuplicates(seq) ==
    \A i, j \in Indices(seq) : seq[i] = seq[j] => i = j

\* The suggestion is printed only after all roots have been walked, if and
\* only if a directory was reportable, and lists the reportable visits in
\* the order of the roots and top-down within a root; the run is over then.
SuggestionAfterAllRoots ==
    /\ suggestion # <<>> => pc = "done"
    /\ pc = "done" =>
          /\ rootIdx = Len(dirnames) + 1
          /\ Directories(visitLog) = WalkAll(dirnames)
          /\ suggestion # <<>> <=> Reportable(visitLog) # <<>>
          /\ suggestion # <<>> =>
                 suggestion = <<"update">> \o Reportable(visitLog)
          /\ ~ENABLED Next

\* C7, as the specification states it: the suggestion is printed only after
\* all roots have been walked, if and only if a directory was reportable, and
\* lists exactly the reportable directories, each once, in the order of the
\* roots and top-down within a root; nothing is executed on them.
C7_EachOnce ==
    /\ SuggestionAfterAllRoots
    /\ NoDuplicates(suggestion)

\* C7, amended: the suggestion is printed only after all roots have been
\* walked, if and only if a directory was reportable, and lists the
\* reportable directories once for every visit that found them reportable,
\* in the order of the roots and top-down within a root: a directory reached
\* from two roots is visited twice and can be listed twice.  Nothing is
\* executed on the listed directories.
C7_OncePerVisit ==
    /\ SuggestionAfterAllRoots
    /\ pc = "done" => Len(suggestion) <= 1 + Len(WalkAll(dirnames))

\* A run over the same root given twice ended with a suggestion listing, for
\* each of the two walks, the subdirectory that was reportable in it.
C7_Witness ==
    /\ pc = "done"
    /\ dirnames = <<"a", "a">>
    /\ suggestion = <<"update", "a/x", "a/x">>

\* The directories being processed are in the loop of a walk.
Walking == pc \notin {"start", "root", "done", "crashed"}

\* C8, as the specification states it: whatever the progress renderers do
\* (none configured, one that works, every one failing to start), progress
\* hands back the elements of its iterable in the same order: the roots
\* iterated are the roots given, and the walk of a root is the walk of that
\* root.
C8_SameIteration ==
    /\ pc # "start" =>
          Iterable(rootsIter) /\ rootsIter.items = dirnames
    /\ Walking =>
          Iterable(walkIter) /\ walkIter.items = <<dirnames[rootIdx]>>

\* The invocation at index i of calls could not be started.
CannotStart(i) == calls[i].end = "OSError"

StartDiagnosed ==
    \E k \in Indices(diags) :
        diags[k] = [msg |-> "trying to run", prog |-> ProgOf(runner),
                    dirname |-> branch]

\* The failure at index i was not retried, was not caught by the walker and
\* stopped the run: nothing is dispatched after it and no suggestion is
\* printed.
RunStopped(i) ==
    /\ i = Len(calls)
    /\ pc = "crashed"
    /\ exc = "OSError"
    /\ Last(visitLog) = [dir |-> branch, reportable |-> FALSE]
    /\ suggestion = <<>>
    /\ ~ENABLED Next

\* C9, as the specification states it: when a program cannot be started for
\* a directory, the hg probe and pull included, a diagnostic is printed, the
\* invocation is not retried, the walker does not catch the failure and the
\* run stops.
C9_AlwaysDiagnosed ==
    \A i \in Indices(calls) :
        CannotStart(i) => StartDiagnosed /\ RunStopped(i)

\* C9, amended: when a program cannot be started for a directory, the
\* invocation is not retried, the walker does not catch the failure and the
\* whole run stops: no later directory or root is dispatched and no
\* suggestion is printed.  try_prog prints its diagnostic when the failure
\* is that of its first attempt; the hg probe and the hg pull, which are not
\* made through try_prog, and the repeat of a failed invocation stop the run
\* without it.
C9_DiagnosedByTryProg ==
    \A i \in Indices(calls) :
        CannotStart(i) =>
            /\ RunStopped(i)
            /\ StartDiagnosed <=> calls[i].by = "try_prog"

\* hg pull could not be started: the run stopped and try_prog printed
\* nothing.
C9_Witness ==
    /\ pc = "crashed"
    /\ exc = "OSError"
    /\ Len(calls) = 1
    /\ calls[1].args = <<"pull">>
    /\ calls[1].by = "direct"
    /\ diags = <<>>

\* C10, as the specification states it: when an invocation made through
\* try_prog exits non-zero and its repeat succeeds, the runner completes
\* without raising and the walk goes on.
C10_RepeatSucceeds ==
    \A i \in Indices(calls) :
        (calls[i].by = "repeat" /\ calls[i].end = "exit0") =>
            pc # "crashed" /\ exc = "none"

====
